---- MODULE Spec2Model ----
(***************************************************************************)
(* Model of accident_prone_area.py: a Streamlit script that loads the      *)
(* national accident-prone-area CSV, derives per-record strategy and       *)
(* reduction columns, filters by province and accident type, and renders   *)
(* KPIs and a Top-10 region chart.  Streamlit re-executes the whole script *)
(* on every widget interaction; one action below is one script run.        *)
(*                                                                         *)
(* Text.  TLC cannot index a TLA+ string, so a Python str is a sequence of *)
(* one-character strings.  Korean literals are written in ASCII:           *)
(*   "전체" -> Jeonche, '스쿨존어린이' -> "schoolzone_child",              *)
(*   '보행어린이' -> "pedestrian_child", '보행노인' -> "pedestrian_elderly",*)
(*   '자전거' -> "bicycle", "기타" -> "gita".                              *)
(* Columns: region = 사고다발지역시도시군구, type = 사고유형구분,          *)
(*          count = 사고건수, sido = 시도.                                 *)
(*                                                                         *)
(* Numbers.  The float columns are held in fixed point: reduction_rate in  *)
(* hundredths (0.30 is 30) and predicted_reduction, predicted_remaining    *)
(* and total_reduction in hundredths of an accident (3.0 is 300).  For an  *)
(* integer count below 2^52 and these four rates, binary64 gives           *)
(* (c - c*r) + c*r = c exactly, so the fixed-point identity is the float   *)
(* one.                                                                    *)
(***************************************************************************)
EXTENDS Integers, Sequences, FiniteSets, TLC

VARIABLES
    file,            \* the CSV on disk: [exists, decodes, table]
    cache,           \* st.cache_data store of load_data: <<>> or <<table>>
    pc,              \* "start", "ready", "stopped" (st.stop) or "exception"
    encoding,        \* encoding of the read_csv attempt whose table was returned
    st_error,        \* TRUE once st.error showed the file-not-found message
    exception,       \* type of the uncaught exception that ended the run
    raw_df,          \* module-level raw_df
    df,              \* module-level df (derived table)
    selected_sido,   \* value of the province selectbox
    selected_types,  \* value of the accident-type multiselect
    filtered_df,     \* module-level filtered_df
    total_accidents,
    total_reduction,
    reduction_pct,
    top_regions

vars == <<file, cache, pc, encoding, st_error, exception, raw_df, df,
          selected_sido, selected_types, filtered_df, total_accidents,
          total_reduction, reduction_pct, top_regions>>

----------------------------------------------------------------------------
(* Bounds of the explored inputs *)

MaxRows == 2        \* rows of a sampled table
MaxLabelLen == 3    \* characters of an exhaustively enumerated region label
MaxGroups == 12     \* regions of a wide table (more than the Top-10 cut)

(* Program constant *)
TopN == 10          \* .tail(10)

----------------------------------------------------------------------------
(* Text *)

\* Characters in code-point order: "\n" < " " < digits < upper < lower.
Alphabet == <<"\n", " ", "1", "2", "3", "A", "B", "C",
              "a", "b", "c", "d", "e", "f", "g", "h", "i", "j", "k", "l", "m", "n">>

Ord(c) == CHOOSE i \in 1..Len(Alphabet) : Alphabet[i] = c

\* A missing cell: pandas reads it as float NaN, which is not a str.
NaN == <<"NaN">>

\* isinstance(text, str)
IsStr(text) == text # NaN

\* \d
IsDigit(c) == c \in {"1", "2", "3"}

\* str.split() separators
IsSpace(c) == c \in {" ", "\n"}

\* Python's str ordering (code points, then length).
RECURSIVE StrLess(_, _)
StrLess(a, b) ==
    IF b = <<>> THEN FALSE
    ELSE IF a = <<>> THEN TRUE
    ELSE IF a[1] # b[1] THEN Ord(a[1]) < Ord(b[1])
    ELSE StrLess(Tail(a), Tail(b))

\* '$' without re.MULTILINE: at the end of the string, and also just before a
\* newline that is the last character.  p is the number of characters consumed.
DollarAt(s, p) ==
    \/ p = Len(s)
    \/ p = Len(s) - 1 /\ s[Len(s)] = "\n"

\* The spans i..j that r'\d+$' can match in s.
DigitsDollarMatches(s) ==
    {m \in (1..Len(s)) \X (1..Len(s)) :
        /\ m[1] <= m[2]
        /\ \A k \in m[1]..m[2] : IsDigit(s[k])
        /\ DollarAt(s, m[2])}

\* re.sub(r'\d+$', '', s): the leftmost match, taken greedily, is deleted.  What
\* follows a match is nothing or one newline, so there is no second match.
re_sub(s) ==
    LET ms == DigitsDollarMatches(s)
    IN IF ms = {} THEN s
       ELSE LET i == CHOOSE a \in {m[1] : m \in ms} : \A m \in ms : a <= m[1]
                j == CHOOSE b \in {m[2] : m \in {n \in ms : n[1] = i}} :
                        \A m \in {n \in ms : n[1] = i} : m[2] <= b
            IN SubSeq(s, 1, i - 1) \o SubSeq(s, j + 1, Len(s))

clean_region(text) == IF IsStr(text) THEN re_sub(text) ELSE text

\* str.split(): the maximal runs of non-whitespace characters, in order.
RECURSIVE split(_)
split(s) ==
    IF s = <<>> THEN <<>>
    ELSE IF IsSpace(s[1]) THEN split(Tail(s))
    ELSE LET n == CHOOSE k \in 1..Len(s) :
                    /\ \A q \in 1..k : ~IsSpace(s[q])
                    /\ (k = Len(s) \/ IsSpace(s[k + 1]))
         IN <<SubSeq(s, 1, n)>> \o split(SubSeq(s, n + 1, Len(s)))

\* The same with a placeholder province where there is no token.
sido_of_default(x) ==
    IF ~IsStr(x) THEN [exception |-> "AttributeError", value |-> <<>>]
    ELSE IF split(x) = <<>> THEN [exception |-> "none", value |-> <<"unknown">>]
    ELSE [exception |-> "none", value |-> split(x)[1]]

\* lambda x: x.split()[0].  A float has no split (AttributeError); an empty
\* token list has no element 0 (IndexError).
sido_of(x) ==
    IF ~IsStr(x) THEN [exception |-> "AttributeError", value |-> <<>>]
    ELSE IF split(x) = <<>> THEN [exception |-> "IndexError", value |-> <<>>]
    ELSE [exception |-> "none", value |-> split(x)[1]]

----------------------------------------------------------------------------
(* load_data and the guard around its call *)

Encodings == <<"cp949", "euc-kr", "utf-8">>

\* pd.read_csv(file_path, encoding=enc)
read_csv(f, enc) ==
    IF ~f.exists
    THEN [exception |-> "FileNotFoundError", df |-> <<>>, encoding |-> "none"]
    ELSE IF enc \notin f.decodes
    THEN [exception |-> "UnicodeDecodeError", df |-> <<>>, encoding |-> "none"]
    ELSE [exception |-> "none", df |-> f.table, encoding |-> enc]

\* try cp949 / except: try euc-kr / except: utf-8 (whose exception propagates)
load_data(f) ==
    LET first == read_csv(f, Encodings[1])
        second == read_csv(f, Encodings[2])
        third == read_csv(f, Encodings[3])
    IN IF first.exception = "none" THEN first
       ELSE IF second.exception = "none" THEN second
       ELSE third

\* @st.cache_data: a stored result is returned (as a copy) without running the
\* body; a call that raises stores nothing.
cached_load_data(c, enc, f) ==
    IF c # <<>> THEN [exception |-> "none", df |-> c[1], encoding |-> enc]
    ELSE load_data(f)

----------------------------------------------------------------------------
(* preprocess_and_analyze *)

strategy_keys == {"schoolzone_child", "pedestrian_child", "pedestrian_elderly", "bicycle"}

strategy_map ==
    [k \in strategy_keys |->
        CASE k = "schoolzone_child"   -> [strategy |-> "school zone speed enforcement / visibility", rate |-> 30]
          [] k = "pedestrian_child"   -> [strategy |-> "walkway fences and safety education", rate |-> 25]
          [] k = "pedestrian_elderly" -> [strategy |-> "elderly protection zone and crosswalk improvement", rate |-> 20]
          [] k = "bicycle"            -> [strategy |-> "bicycle lanes and intersection improvement", rate |-> 25]]

\* The same with a default that predicts no reduction.
apply_strategy_zero_default(type) ==
    IF type \in DOMAIN strategy_map THEN strategy_map[type]
    ELSE [strategy |-> "general safety check", rate |-> 0]

\* strategy_map.get(row['사고유형구분'], {'strategy': '일반 안전 점검', 'rate': 0.10})
apply_strategy(type) ==
    IF type \in DOMAIN strategy_map THEN strategy_map[type]
    ELSE [strategy |-> "general safety check", rate |-> 10]

\* data['사고건수'] * data['reduction_rate'], in hundredths
predicted_reduction_of(count, rate) == count * rate

\* The operands of the subtraction exchanged.
predicted_remaining_swapped(count, reduction) == reduction - count * 100

\* data['사고건수'] - data['predicted_reduction'], in hundredths
predicted_remaining_of(count, reduction) == count * 100 - reduction

\* One row of the table preprocess_and_analyze returns.
derived_row(r) ==
    LET rc == clean_region(r.region)
        st_info == apply_strategy(r.type)
        red == predicted_reduction_of(r.count, st_info.rate)
    IN [region |-> r.region, type |-> r.type, count |-> r.count,
        region_clean |-> rc,
        sido |-> sido_of(rc).value,
        proposed_strategy |-> st_info.strategy,
        reduction_rate |-> st_info.rate,
        predicted_reduction |-> red,
        predicted_remaining |-> predicted_remaining_of(r.count, red)]

\* Rows whose province step raises, in row order.
sido_failures(t) ==
    {i \in 1..Len(t) : sido_of(clean_region(t[i].region)).exception # "none"}

\* The same without data = df.copy(): the new columns land in the argument.
preprocess_and_analyze_inplace(t) ==
    LET bad == sido_failures(t)
    IN IF bad # {}
       THEN LET i == CHOOSE a \in bad : \A b \in bad : a <= b
            IN [exception |-> sido_of(clean_region(t[i].region)).exception,
                input |-> t, data |-> <<>>]
       ELSE [exception |-> "none",
             input |-> [i \in 1..Len(t) |-> derived_row(t[i])],
             data |-> [i \in 1..Len(t) |-> derived_row(t[i])]]

\* preprocess_and_analyze(df): input is the argument after the call, data the
\* returned table.  The first row without a province ends the call.
preprocess_and_analyze(t) ==
    LET bad == sido_failures(t)
    IN IF bad # {}
       THEN LET i == CHOOSE a \in bad : \A b \in bad : a <= b
            IN [exception |-> sido_of(clean_region(t[i].region)).exception,
                input |-> t, data |-> <<>>]
       ELSE [exception |-> "none",
             input |-> t,
             data |-> [i \in 1..Len(t) |-> derived_row(t[i])]]

----------------------------------------------------------------------------
(* Sidebar filter *)

\* The selectbox's first option.
Jeonche == <<"jeonche">>

\* sorted(df['시도'].unique()): the options; their order only orders the menu.
sido_list(d) == {d[i].sido : i \in 1..Len(d)}

\* The same narrowing that ignores the selection.
filter_sido_ignored(d, sido) == d

\* if selected_sido != "전체": df[df['시도'] == selected_sido] else df
filter_sido(d, sido) ==
    IF sido # Jeonche THEN SelectSeq(d, LAMBDA r : r.sido = sido) ELSE d

\* sorted(filtered_df['사고유형구분'].unique())
type_list(f) == {f[i].type : i \in 1..Len(f)}

\* The same without the truthiness guard.
filter_types_unguarded(f, types) == SelectSeq(f, LAMBDA r : r.type \in types)

\* if selected_types: filtered_df[filtered_df['사고유형구분'].isin(selected_types)]
filter_types(f, types) ==
    IF types # {} THEN SelectSeq(f, LAMBDA r : r.type \in types) ELSE f

----------------------------------------------------------------------------
(* KPIs *)

RECURSIVE GCD(_, _)
GCD(a, b) == IF b = 0 THEN a ELSE GCD(b, a % b)

\* A float result kept exact: num/den in lowest terms.
Frac(n, d) == [num |-> n \div GCD(n, d), den |-> d \div GCD(n, d)]

Zero == [num |-> 0, den |-> 1]

\* What numpy gives for x / 0: nan or inf (with a warning), not a number to show.
NotANumber == [num |-> 0, den |-> 0]

\* float / int
truediv(a, b) == IF b = 0 THEN NotANumber ELSE Frac(a, b)

\* filtered_df[col].sum()
RECURSIVE sum_count(_)
sum_count(f) == IF f = <<>> THEN 0 ELSE f[1].count + sum_count(Tail(f))

RECURSIVE sum_reduction(_)
sum_reduction(f) ==
    IF f = <<>> THEN 0 ELSE f[1].predicted_reduction + sum_reduction(Tail(f))

RECURSIVE sum_remaining(_)
sum_remaining(f) ==
    IF f = <<>> THEN 0 ELSE f[1].predicted_remaining + sum_remaining(Tail(f))

\* The same without the guard.
reduction_pct_unguarded(reduction, accidents) == truediv(reduction, accidents)

\* (total_reduction / total_accidents * 100) if total_accidents > 0 else 0.
\* total_reduction is in hundredths, so the percentage is reduction/accidents.
reduction_pct_of(reduction, accidents) ==
    IF accidents > 0 THEN truediv(reduction, accidents) ELSE Zero

----------------------------------------------------------------------------
(* Top 10 regions *)

\* Group keys in the order groupby lists them (sorted).
RECURSIVE sorted_keys(_)
sorted_keys(S) ==
    IF S = {} THEN <<>>
    ELSE LET k == CHOOSE a \in S : \A b \in S \ {a} : StrLess(a, b)
         IN <<k>> \o sorted_keys(S \ {k})

\* filtered_df.groupby('region_clean')[[...]].sum().reset_index()
groupby_sum(f) ==
    LET keys == sorted_keys({f[i].region_clean : i \in 1..Len(f)})
    IN [g \in 1..Len(keys) |->
          LET rows == SelectSeq(f, LAMBDA r : r.region_clean = keys[g])
          IN [region_clean |-> keys[g],
              count |-> sum_count(rows),
              predicted_reduction |-> sum_reduction(rows),
              predicted_remaining |-> sum_remaining(rows)]]

\* Orders of the rows S of g with count ascending.
RECURSIVE ascending_orders(_, _)
ascending_orders(g, S) ==
    IF S = {} THEN {<<>>}
    ELSE UNION {{<<g[i]>> \o rest : rest \in ascending_orders(g, S \ {i})} :
                    i \in {j \in S : \A k \in S : g[j].count <= g[k].count}}

\* sort_values('사고건수', ascending=True) with the default kind='quicksort',
\* which is not stable: rows with equal counts come out in an order the
\* library build decides.  The set of possible results.
sort_values(g) == ascending_orders(g, 1..Len(g))

\* The first n rows taken instead of the last.
head(s, n) == SubSeq(s, 1, IF n < Len(s) THEN n ELSE Len(s))

\* .tail(n)
tail(s, n) == SubSeq(s, IF Len(s) > n THEN Len(s) - n + 1 ELSE 1, Len(s))

----------------------------------------------------------------------------
(* The files the script may find *)

\* Region labels of the sampled tables: two suffixed labels of one region and
\* a label without suffix in another province.
SampleLabels == {<<"A", " ", "1">>, <<"A", " ", "2">>, <<"B", " ", "C">>}

\* Category and count of a sampled row: the two rows of the worked example, an
\* unlisted category, and records without accidents.
SampleKinds ==
    {[type |-> "schoolzone_child", count |-> 10], [type |-> "bicycle", count |-> 4],
     [type |-> "gita", count |-> 0], [type |-> "bicycle", count |-> 0]}

SampleRows ==
    {[region |-> l, type |-> k.type, count |-> k.count] : l \in SampleLabels, k \in SampleKinds}

\* Every table of 1..MaxRows sampled rows.
SampleTables == UNION {[1..n -> SampleRows] : n \in 1..MaxRows}

LabelAlphabet == {"A", " ", "1", "\n"}

\* Every str of at most MaxLabelLen characters over LabelAlphabet.
Strings == UNION {[1..n -> LabelAlphabet] : n \in 0..MaxLabelLen}

\* Category strings: the four keys, an unlisted one, and a key with a space added.
AllTypes == strategy_keys \cup {"gita", "bicycle "}

\* One-row tables over every label (and the missing label) and every category.
LabelTables ==
    {<<[region |-> l, type |-> t, count |-> 1]>> : l \in Strings \cup {NaN}, t \in AllTypes}

\* Two-row tables mixing labels with and without a province.
MalformedTables ==
    {<<[region |-> a, type |-> "bicycle", count |-> 1],
       [region |-> b, type |-> "bicycle", count |-> 1]>> :
        a, b \in {NaN, <<"1", "2">>, <<" ">>, <<"A", " ", "1">>}}

Districts == <<"a", "b", "c", "d", "e", "f", "g", "h", "i", "j", "k", "l", "m", "n">>

\* Row i of a wide table: one region per row, counts ascending or descending
\* in row order, and row tie + 1 given the count of row tie (tie = 0: none).
WideRow(n, desc, tie, i) ==
    LET base(j) == IF desc THEN n + 1 - j ELSE j
    IN [region |-> <<(IF i % 3 = 0 THEN "B" ELSE "A"), " ", Districts[i]>>
                      \o (IF i % 2 = 1 THEN <<"1">> ELSE <<>>),
        type |-> IF i % 2 = 0 THEN "bicycle" ELSE "schoolzone_child",
        count |-> IF tie > 0 /\ i = tie + 1 THEN base(tie) ELSE base(i)]

\* Tables with more regions than the Top-10 chart shows.
WideTables ==
    {[i \in 1..n |-> WideRow(n, desc, tie, i)] :
        n \in (TopN + 1)..MaxGroups, desc \in BOOLEAN, tie \in 0..(MaxGroups - 1)}

Tables == SampleTables \cup LabelTables \cup MalformedTables \cup WideTables

AllEncodings == {Encodings[i] : i \in 1..Len(Encodings)}

\* A file is absent, or present and readable under some of the encodings.  Every
\* combination of readable encodings is tried on the one-row sampled tables;
\* the other tables come in a file every encoding reads.
Files ==
    {[exists |-> e, decodes |-> {}, table |-> <<>>] : e \in BOOLEAN}
    \cup {[exists |-> TRUE, decodes |-> d, table |-> t] :
            d \in SUBSET AllEncodings \ {{}}, t \in [1..1 -> SampleRows]}
    \cup {[exists |-> TRUE, decodes |-> AllEncodings, table |-> t] : t \in Tables}

----------------------------------------------------------------------------
(* The script *)

Init ==
    /\ file \in Files
    /\ cache = <<>>
    /\ pc = "start"
    /\ encoding = "none"
    /\ st_error = FALSE
    /\ exception = "none"
    /\ raw_df = <<>>
    /\ df = <<>>
    /\ selected_sido = Jeonche
    /\ selected_types = {}
    /\ filtered_df = <<>>
    /\ total_accidents = 0
    /\ total_reduction = 0
    /\ reduction_pct = Zero
    /\ top_regions = <<>>

\* Sections 4 and 5 of the script, from the derived table d and the values the
\* two widgets return.
render(d, sido, types) ==
    LET f == filter_types(filter_sido(d, sido), types)
    IN /\ selected_sido' = sido
       /\ selected_types' = types
       /\ filtered_df' = f
       /\ total_accidents' = sum_count(f)
       /\ total_reduction' = sum_reduction(f)
       /\ reduction_pct' = reduction_pct_of(sum_reduction(f), sum_count(f))
       /\ \E sorted \in sort_values(groupby_sum(f)) :
             top_regions' = tail(sorted, TopN)

\* One execution of the script, top to bottom.  On the first one the widgets
\* return their defaults ("전체", every listed type); on a rerun they return
\* what the user chose among the options the run offers.
run(first) ==
    LET l == cached_load_data(cache, encoding, file)
        p == preprocess_and_analyze(l.df)
    IN IF l.exception = "FileNotFoundError"
       THEN /\ st_error' = TRUE
            /\ pc' = "stopped"
            /\ UNCHANGED <<file, cache, encoding, exception, raw_df, df,
                           selected_sido, selected_types, filtered_df,
                           total_accidents, total_reduction, reduction_pct,
                           top_regions>>
       ELSE IF l.exception # "none"
       THEN /\ exception' = l.exception
            /\ pc' = "exception"
            /\ UNCHANGED <<file, cache, encoding, st_error, raw_df, df,
                           selected_sido, selected_types, filtered_df,
                           total_accidents, total_reduction, reduction_pct,
                           top_regions>>
       ELSE /\ cache' = <<l.df>>
            /\ encoding' = l.encoding
            /\ raw_df' = p.input
            /\ UNCHANGED <<file, st_error>>
            /\ IF p.exception # "none"
               THEN /\ exception' = p.exception
                    /\ pc' = "exception"
                    /\ UNCHANGED <<df, selected_sido, selected_types, filtered_df,
                                   total_accidents, total_reduction,
                                   reduction_pct, top_regions>>
               ELSE /\ df' = p.data
                    /\ pc' = "ready"
                    /\ UNCHANGED exception
                    /\ \E sido \in (IF first THEN {Jeonche}
                                    ELSE {Jeonche} \cup sido_list(p.data)) :
                       \E types \in (IF first
                                     THEN {type_list(filter_sido(p.data, sido))}
                                     ELSE SUBSET type_list(filter_sido(p.data, sido))) :
                           render(p.data, sido, types)

\* The page is opened.
FirstRun == pc = "start" /\ run(TRUE)

\* The user changes a widget of the rendered page.
Interact == pc = "ready" /\ run(FALSE)

Next == FirstRun \/ Interact

Spec == Init /\ [][Next]_vars

----------------------------------------------------------------------------
(* Vocabulary of the properties, stated without the script's own operators *)

\* The rows of d at the indices idx, in the order of d.
Pick(d, idx) ==
    [k \in 1..Cardinality(idx) |->
        d[CHOOSE i \in idx : Cardinality({j \in idx : j <= i}) = k]]

\* The sum of fn over the index set S.
RECURSIVE SumOver(_, _)
SumOver(S, fn) ==
    IF S = {} THEN 0
    ELSE LET x == CHOOSE y \in S : TRUE IN fn[x] + SumOver(S \ {x}, fn)

ProvinceSelected(r) == selected_sido = Jeonche \/ r.sido = selected_sido

HasToken(s) == \E k \in 1..Len(s) : ~IsSpace(s[k])

\* The first whitespace-delimited token of a str that has one.
FirstToken(s) ==
    LET i == CHOOSE a \in 1..Len(s) :
                ~IsSpace(s[a]) /\ \A b \in 1..(a - 1) : IsSpace(s[b])
        j == CHOOSE a \in i..Len(s) :
                /\ \A b \in i..a : ~IsSpace(s[b])
                /\ (a = Len(s) \/ IsSpace(s[a + 1]))
    IN SubSeq(s, i, j)

\* A str without its maximal trailing run of digits.
WithoutTrailingDigits(s) ==
    SubSeq(s, 1, CHOOSE n \in 0..Len(s) :
                    /\ \A k \in (n + 1)..Len(s) : IsDigit(s[k])
                    /\ (n = 0 \/ ~IsDigit(s[n])))

\* The per-region sums of the filtered table, as a set.
RegionSums ==
    {[region_clean |-> key,
      count |-> SumOver({i \in 1..Len(filtered_df) : filtered_df[i].region_clean = key},
                        [i \in 1..Len(filtered_df) |-> filtered_df[i].count]),
      predicted_reduction |->
          SumOver({i \in 1..Len(filtered_df) : filtered_df[i].region_clean = key},
                  [i \in 1..Len(filtered_df) |-> filtered_df[i].predicted_reduction]),
      predicted_remaining |->
          SumOver({i \in 1..Len(filtered_df) : filtered_df[i].region_clean = key},
                  [i \in 1..Len(filtered_df) |-> filtered_df[i].predicted_remaining])] :
        key \in {filtered_df[i].region_clean : i \in 1..Len(filtered_df)}}

\* The grouped rows sorted by count with ties left in group order.
StableAscending(g) ==
    [k \in 1..Len(g) |->
        g[CHOOSE i \in 1..Len(g) :
            Cardinality({j \in 1..Len(g) :
                \/ g[j].count < g[i].count
                \/ g[j].count = g[i].count /\ j < i}) = k - 1]]

\* The first encoding, in the order tried, under which the file reads.
FirstReadable ==
    Encodings[CHOOSE i \in 1..Len(Encodings) :
        /\ Encodings[i] \in file.decodes
        /\ \A j \in 1..(i - 1) : Encodings[j] \notin file.decodes]

----------------------------------------------------------------------------
(* C1 *)

\* C1 as stated: with an empty type selection the filtered table has no rows.
C1_EmptySelectionShowsNothing ==
    (pc = "ready" /\ selected_types = {}) => filtered_df = <<>>

\* C1 amended: with an empty type selection no type filter is applied; the
\* filtered table is every row of the derived table in the selected province
\* (every row when the selection is the sentinel), in order.
C1_EmptySelectionShowsAll ==
    (pc = "ready" /\ selected_types = {}) =>
        filtered_df = Pick(df, {i \in 1..Len(df) : ProvinceSelected(df[i])})

C1_Witness ==
    /\ pc = "ready"
    /\ selected_types = {}
    /\ selected_sido # Jeonche
    /\ filtered_df # <<>>
    /\ Len(filtered_df) < Len(df)

----------------------------------------------------------------------------
(* C2 *)

\* C2: the encodings are tried in the order cp949, euc-kr, utf-8 and the table
\* of the first that reads is returned; whenever none reads (file absent, or
\* present and unreadable under all three) the blocking message is shown, the
\* script stops, and nothing after the load runs.
C2_LoaderContract ==
    pc # "start" =>
        IF file.exists /\ file.decodes # {}
        THEN /\ encoding = FirstReadable
             /\ raw_df = file.table
        ELSE /\ st_error
             /\ pc = "stopped"
             /\ exception = "none"
             /\ raw_df = <<>> /\ df = <<>> /\ filtered_df = <<>> /\ top_regions = <<>>

----------------------------------------------------------------------------
(* C3 *)

\* C3: with a non-empty type selection the filtered table is exactly the rows
\* of the derived table in the selected province (any province under the
\* sentinel) whose category is selected, in the derived table's order.
C3_FilterIsProjection ==
    (pc = "ready" /\ selected_types # {}) =>
        filtered_df = Pick(df, {i \in 1..Len(df) :
                                  ProvinceSelected(df[i]) /\ df[i].type \in selected_types})

C3_Witness ==
    /\ pc = "ready"
    /\ selected_sido # Jeonche
    /\ selected_types # {}
    /\ \E i \in 1..Len(df) : df[i].sido # selected_sido
    /\ \E i \in 1..Len(df) : df[i].sido = selected_sido /\ df[i].type \notin selected_types
    /\ Len(filtered_df) > 1

----------------------------------------------------------------------------
(* C4 *)

\* C4: every derived row carries the strategy and rate of its category under
\* exact match, any unlisted category the default strategy with rate 0.10; the
\* rate is one of 0.30, 0.25, 0.20, 0.10.
C4_StrategyLookup ==
    pc = "ready" =>
        \A i \in 1..Len(df) :
            LET r == df[i]
            IN /\ r.type = "schoolzone_child" =>
                    /\ r.reduction_rate = 30
                    /\ r.proposed_strategy = "school zone speed enforcement / visibility"
               /\ r.type = "pedestrian_child" =>
                    /\ r.reduction_rate = 25
                    /\ r.proposed_strategy = "walkway fences and safety education"
               /\ r.type = "pedestrian_elderly" =>
                    /\ r.reduction_rate = 20
                    /\ r.proposed_strategy = "elderly protection zone and crosswalk improvement"
               /\ r.type = "bicycle" =>
                    /\ r.reduction_rate = 25
                    /\ r.proposed_strategy = "bicycle lanes and intersection improvement"
               /\ r.type \notin {"schoolzone_child", "pedestrian_child",
                                 "pedestrian_elderly", "bicycle"} =>
                    /\ r.reduction_rate = 10
                    /\ r.proposed_strategy = "general safety check"
               /\ r.reduction_rate \in {30, 25, 20, 10}

C4_Witness ==
    /\ pc = "ready"
    /\ \E i \in 1..Len(df) : df[i].type = "gita" /\ df[i].reduction_rate = 10
    /\ \E i \in 1..Len(df) : df[i].type = "schoolzone_child" /\ df[i].reduction_rate = 30

----------------------------------------------------------------------------
(* C5 *)

\* C5: in every derived row predicted_reduction = count x rate and
\* predicted_remaining = count - predicted_reduction, so the two add up to the
\* count; a count of 0 gives 0 and 0.
C5_ReductionSplitsCount ==
    pc = "ready" =>
        \A i \in 1..Len(df) :
            LET r == df[i]
            IN /\ r.predicted_reduction = r.count * r.reduction_rate
               /\ r.predicted_remaining = r.count * 100 - r.predicted_reduction
               /\ r.predicted_reduction + r.predicted_remaining = r.count * 100
               /\ r.count = 0 => r.predicted_reduction = 0 /\ r.predicted_remaining = 0

C5_Witness ==
    /\ pc = "ready"
    /\ \E i \in 1..Len(df) : df[i].count = 0 /\ df[i].predicted_remaining = 0
    /\ \E i \in 1..Len(df) :
          df[i].count = 10 /\ df[i].predicted_reduction = 300 /\ df[i].predicted_remaining = 700

----------------------------------------------------------------------------
(* C6 *)

\* C6: total_accidents and total_reduction are the sums of count and of
\* predicted_reduction over the filtered rows; reduction_pct is their ratio
\* times 100 when total_accidents > 0 and 0 otherwise, never the result of a
\* division by zero; the rows (스쿨존어린이, 10), (자전거, 4) give 14, 4.0 and
\* 28.6 to one decimal.
C6_KpiTotals ==
    /\ reduction_pct_of(sum_reduction(<<>>), sum_count(<<>>)) = Zero
    /\ pc = "ready" =>
        LET rows == 1..Len(filtered_df)
        IN /\ total_accidents = SumOver(rows, [i \in rows |-> filtered_df[i].count])
           /\ total_reduction =
                 SumOver(rows, [i \in rows |-> filtered_df[i].predicted_reduction])
           /\ reduction_pct # NotANumber
           /\ IF total_accidents > 0
              THEN /\ reduction_pct.den > 0
                   /\ reduction_pct.num * total_accidents = total_reduction * reduction_pct.den
              ELSE reduction_pct = Zero
           /\ ( /\ Len(filtered_df) = 2
                /\ filtered_df[1].type = "schoolzone_child" /\ filtered_df[1].count = 10
                /\ filtered_df[2].type = "bicycle" /\ filtered_df[2].count = 4 ) =>
                 /\ total_accidents = 14
                 /\ total_reduction = 400
                 /\ 2 * (286 * reduction_pct.den - 10 * reduction_pct.num) <= reduction_pct.den
                 /\ 2 * (10 * reduction_pct.num - 286 * reduction_pct.den) <= reduction_pct.den

C6_Witness ==
    /\ pc = "ready"
    /\ filtered_df # <<>>
    /\ total_accidents = 0
    /\ reduction_pct = Zero

----------------------------------------------------------------------------
(* C7 *)

\* C7: when every cleaned region has a token, each row's province is the
\* first token of its cleaned region; when some cleaned region is empty or
\* blank, the derivation fails at the province step (IndexError from
\* split()[0], the code's form of MalformedRegion) and yields no table.
C7_ProvinceOrFailure ==
    raw_df # <<>> =>
        LET cleaned == [i \in 1..Len(raw_df) |-> clean_region(raw_df[i].region)]
            without == {i \in 1..Len(raw_df) : ~IsStr(cleaned[i]) \/ ~HasToken(cleaned[i])}
        IN IF without = {}
           THEN /\ pc = "ready"
                /\ Len(df) = Len(raw_df)
                /\ \A i \in 1..Len(df) : df[i].sido = FirstToken(df[i].region_clean)
           ELSE /\ pc = "exception"
                /\ df = <<>>
                /\ exception \in {"IndexError", "AttributeError"}
                /\ LET i == CHOOSE a \in without : \A b \in without : a <= b
                   IN IsStr(cleaned[i]) => exception = "IndexError"

C7_Witness ==
    /\ pc = "exception"
    /\ exception = "IndexError"
    /\ df = <<>>
    /\ \E i \in 1..Len(raw_df) :
          /\ raw_df[i].region # <<>>
          /\ \A k \in 1..Len(raw_df[i].region) : IsDigit(raw_df[i].region[k])

----------------------------------------------------------------------------
(* C8 *)

\* C8: the loaded table is never altered by the derivation, and once the page
\* is rendered no interaction changes the loaded table or the derived table.
C8_TablesUntouched ==
    /\ [](raw_df # <<>> => raw_df = file.table /\ cache = <<file.table>>)
    /\ [][pc = "ready" => raw_df' = raw_df /\ df' = df /\ cache' = cache]_vars

C8_Witness ==
    /\ pc = "ready"
    /\ selected_sido # Jeonche
    /\ selected_types # {}
    /\ Len(filtered_df) < Len(df)
    /\ raw_df = file.table

----------------------------------------------------------------------------
(* C9 *)

\* C9 as stated: top_regions is the last min(10, N) rows of the grouped sums
\* sorted ascending by count with ties kept in the order of the grouped rows.
C9_StableTop10 ==
    pc = "ready" =>
        top_regions = tail(StableAscending(groupby_sum(filtered_df)), TopN)

\* C9 amended: top_regions lists min(10, N) distinct region groups with their
\* summed columns, ascending by summed count, and no omitted group has a
\* higher sum than a listed one; which of several groups with equal sums is
\* listed, and in what order, is not determined.
C9_Top10Ascending ==
    pc = "ready" =>
        LET n == Cardinality(RegionSums)
        IN /\ Len(top_regions) = (IF n < TopN THEN n ELSE TopN)
           /\ \A k \in 1..Len(top_regions) : top_regions[k] \in RegionSums
           /\ \A k, l \in 1..Len(top_regions) :
                 k < l => /\ top_regions[k] # top_regions[l]
                          /\ top_regions[k].count <= top_regions[l].count
           /\ \A g \in RegionSums :
                 (\A k \in 1..Len(top_regions) : top_regions[k] # g) =>
                     \A k \in 1..Len(top_regions) : g.count <= top_regions[k].count

C9_Witness ==
    /\ pc = "ready"
    /\ Cardinality(RegionSums) > TopN
    /\ Len(top_regions) = TopN
    /\ top_regions # tail(StableAscending(groupby_sum(filtered_df)), TopN)

----------------------------------------------------------------------------
(* C10 *)

\* C10: the cleaned region of a str label is the label without its maximal
\* trailing run of digits, a label that does not end in a digit and a label
\* that is no str are unchanged, and cleaning a cleaned region changes nothing.
C10_CleanStripsTrailingDigits ==
    /\ raw_df # <<>> =>
          \A i \in 1..Len(raw_df) :
              LET label == raw_df[i].region
                  c == clean_region(label)
              IN /\ IsStr(label) => c = WithoutTrailingDigits(label)
                 /\ ~IsStr(label) => c = label
                 /\ clean_region(c) = c
    /\ pc = "ready" =>
          \A i \in 1..Len(df) : df[i].region_clean = WithoutTrailingDigits(df[i].region)

====
